---- MODULE Spec2Model ----
(***************************************************************************)
(* Operator-monitoring API (Express + Supabase): the access gate           *)
(* (verificarAutenticacao, verificarSupervisor), the login routes, the     *)
(* operator directory and the monitoramento status ledger of the latest    *)
(* revision of index.js (lines 581-1039).                                  *)
(*                                                                         *)
(* A request is a record that moves through its route's middleware chain   *)
(* and then through its handler, one step per store operation (each        *)
(* `await supabase...` is one atomic statement at the store).  The         *)
(* middleware chain of a request runs to completion on the single JS       *)
(* thread; requests interleave at the awaits of their handlers.            *)
(***************************************************************************)
EXTENDS Integers, Sequences, FiniteSets, TLC

VARIABLES
    usuarios,       \* table usuarios: set of rows
    monitoramento,  \* table monitoramento: sequence of rows, in insertion order
    session,        \* express-session store: session id -> session.token
    clock,          \* wall clock (new Date(), the jwt clock), in ticks
    req,            \* request slot -> the request in flight or last answered
    nreq,           \* requests received so far
    thread,         \* the slot whose synchronous code holds the JS thread, 0 when it is free
    lastWrite,      \* history: user id -> column -> value of the last committed write of that column
    pingRun         \* history: user id -> pings committed in a row, and the row before the first

vars == <<usuarios, monitoramento, session, clock, req, nreq, thread, lastWrite, pingRun>>

-----------------------------------------------------------------------------
(* Bounds *)

MaxClock == 2        \* the clock stops after this many ticks
HoursPerTick == 4    \* length of one clock tick
MaxRequests == 3     \* requests received in one behaviour
MaxGate == 2         \* requests received in one behaviour of SpecGate
MaxUsuarios == 5     \* rows of usuarios

(* Program constants *)

TokenTTL == 8        \* expiresIn: '8h'
SaltRounds == 10     \* bcrypt.hash(senha, 10)

Slots == {1, 2}      \* two requests in flight at once
Sessions == {1, 2, 3} \* browser sessions
Ids == 1..MaxUsuarios

Null == 0 - 1        \* SQL NULL / JS null in a timestamp or id position
Times == 0..MaxClock

JWT_SECRET == "JWT_SECRET"
Secrets == {JWT_SECRET, "outro-segredo"}

-----------------------------------------------------------------------------
(* jsonwebtoken *)

NoToken == [kind |-> "none", userId |-> 0, nivel_acesso |-> "", exp |-> 0, secret |-> ""]
Malformed == [kind |-> "malformed", userId |-> 0, nivel_acesso |-> "", exp |-> 0, secret |-> ""]

\* the token's lifetime in ticks, rounded up
ExpiresIn == (TokenTTL + HoursPerTick - 1) \div HoursPerTick

\* jwt.sign({ userId, nivel_acesso }, secret, { expiresIn: '8h' }) at time now
JwtSign(userId, nivel_acesso, secret, now) ==
    [kind |-> "jwt", userId |-> userId, nivel_acesso |-> nivel_acesso,
     exp |-> now + ExpiresIn, secret |-> secret]

NoClaims == [userId |-> 0, nivel_acesso |-> ""]

\* Mutant of JwtVerify: the expiry is not looked at (ignoreExpiration)
JwtVerifySemExpiracao(token, secret, now) ==
    IF token.kind # "jwt" THEN [ok |-> FALSE, err |-> "Malformed", claims |-> NoClaims]
    ELSE IF token.secret # secret
        THEN [ok |-> FALSE, err |-> "SignatureMismatch", claims |-> NoClaims]
    ELSE [ok |-> TRUE, err |-> "",
          claims |-> [userId |-> token.userId, nivel_acesso |-> token.nivel_acesso]]

\* Mutant of JwtVerify: the payload is decoded, the signature is not verified
JwtVerifySemAssinatura(token, secret, now) ==
    IF token.kind # "jwt" THEN [ok |-> FALSE, err |-> "Malformed", claims |-> NoClaims]
    ELSE IF now >= token.exp
        THEN [ok |-> FALSE, err |-> "Expired", claims |-> NoClaims]
    ELSE [ok |-> TRUE, err |-> "",
          claims |-> [userId |-> token.userId, nivel_acesso |-> token.nivel_acesso]]

\* jwt.verify(token, secret) at time now: decode, then signature, then expiry
JwtVerify(token, secret, now) ==
    IF token.kind # "jwt" THEN [ok |-> FALSE, err |-> "Malformed", claims |-> NoClaims]
    ELSE IF token.secret # secret
        THEN [ok |-> FALSE, err |-> "SignatureMismatch", claims |-> NoClaims]
    ELSE IF now >= token.exp
        THEN [ok |-> FALSE, err |-> "Expired", claims |-> NoClaims]
    ELSE [ok |-> TRUE, err |-> "",
          claims |-> [userId |-> token.userId, nivel_acesso |-> token.nivel_acesso]]

-----------------------------------------------------------------------------
(* bcrypt *)

\* bcrypt.hash(senha, 10): a salted digest, never the plaintext
BcryptHash(senha) == [alg |-> "bcrypt", rounds |-> SaltRounds, de |-> senha]

\* bcrypt.compare(senha, digest)
BcryptCompare(senha, digest) == digest.alg = "bcrypt" /\ digest.de = senha

-----------------------------------------------------------------------------
(* The store: tables usuarios and monitoramento *)

NoUsuario == [id |-> 0, email |-> "", senha |-> BcryptHash(""), nivel_acesso |-> "",
              supervisor_id |-> Null]

Colunas == {"status_online", "horario_entrada", "horario_almoco_inicio",
            "horario_almoco_fim", "horario_saida", "ultima_atividade"}
Horarios == Colunas \ {"status_online"}

\* A row of monitoramento with every column but the key at its default (NULL).
\* status_online is "true", "false" or "null".
LinhaVazia(operador_id) ==
    [operador_id |-> operador_id, status_online |-> "null", horario_entrada |-> Null,
     horario_almoco_inicio |-> Null, horario_almoco_fim |-> Null,
     horario_saida |-> Null, ultima_atividade |-> Null]

NoLinha == LinhaVazia(0)

\* .single(): data is the row when exactly one row matches, else an error
Single(rows) ==
    IF Cardinality(rows) = 1
    THEN [data |-> CHOOSE x \in rows : TRUE, error |-> FALSE]
    ELSE [data |-> NoUsuario, error |-> TRUE]

\* positions of the rows of table t keyed by operador_id
Posicoes(t, operador_id) == {i \in DOMAIN t : t[i].operador_id = operador_id}

\* from('monitoramento').select('*').eq('operador_id', id).single()
SingleMonitoramento(t, operador_id) ==
    IF Cardinality(Posicoes(t, operador_id)) = 1
    THEN [data |-> t[CHOOSE i \in Posicoes(t, operador_id) : TRUE], error |-> FALSE]
    ELSE [data |-> NoLinha, error |-> TRUE]

\* the row `row` with the columns of `payload` (a function column -> value) set
Merge(row, payload) ==
    [c \in DOMAIN row |-> IF c \in DOMAIN payload THEN payload[c] ELSE row[c]]

\* Mutant of Upsert: a plain INSERT ... that ignores the conflict target
UpsertSemConflito(t, operador_id, payload) ==
    [table |-> Append(t, Merge(LinhaVazia(operador_id), payload)), error |-> FALSE]

\* Mutant of Upsert: the conflicting row is replaced by the payload, the
\* columns the payload does not name fall back to their defaults
UpsertSubstitui(t, operador_id, payload) ==
    IF Posicoes(t, operador_id) = {}
    THEN [table |-> Append(t, Merge(LinhaVazia(operador_id), payload)), error |-> FALSE]
    ELSE [table |-> [i \in DOMAIN t |->
                        IF t[i].operador_id = operador_id
                        THEN Merge(LinhaVazia(operador_id), payload) ELSE t[i]],
          error |-> FALSE]

\* Mutant of Upsert: INSERT without ON CONFLICT under the unique constraint
UpsertSoInsere(t, operador_id, payload) ==
    IF Posicoes(t, operador_id) = {}
    THEN [table |-> Append(t, Merge(LinhaVazia(operador_id), payload)), error |-> FALSE]
    ELSE [table |-> t, error |-> TRUE]

\* .upsert(payload, { onConflict: 'operador_id' }):
\* INSERT ... ON CONFLICT (operador_id) DO UPDATE SET <the payload's columns>
Upsert(t, operador_id, payload) ==
    IF Posicoes(t, operador_id) = {}
    THEN [table |-> Append(t, Merge(LinhaVazia(operador_id), payload)), error |-> FALSE]
    ELSE [table |-> [i \in DOMAIN t |->
                        IF t[i].operador_id = operador_id
                        THEN Merge(t[i], payload) ELSE t[i]],
          error |-> FALSE]

\* .insert(payload) into monitoramento: operador_id is unique, a second row
\* for the same operator is refused with a duplicate-key error
Insert(t, operador_id, payload) ==
    IF Posicoes(t, operador_id) = {}
    THEN [table |-> Append(t, Merge(LinhaVazia(operador_id), payload)), error |-> FALSE]
    ELSE [table |-> t, error |-> TRUE]

-----------------------------------------------------------------------------
(* Requests *)

Tipos == {"entrada", "saida", "almoco_inicio", "almoco_fim", "ping"}

\* The response: the JSON body's fields and the Set-Cookie header
NoCorpo == [userId |-> 0, nivel_acesso |-> "", operador_id |-> 0, online |-> "null",
            horario |-> Null, operador |-> 0, status |-> NoLinha, lista |-> {},
            cookie |-> NoToken]

ReqVazio ==
    [route |-> "", pc |-> "idle",
     sess |-> 1, token |-> NoToken, cookie |-> NoToken,       \* req.session.token, req.cookies.session_token
     tipo |-> "", operadorId |-> 0, status_online |-> "null", \* req.body.tipo, req.params.operadorId, req.body.status_online
     email |-> "", senha |-> "",                               \* req.body.email, req.body.senha
     user |-> NoClaims,                                        \* req.user
     agora |-> Null, achado |-> NoUsuario,                     \* handler locals
     status |-> 0, corpo |-> NoCorpo,                          \* the response
     trace |-> <<>>, authAt |-> Null, conc |-> FALSE,          \* history
     falha |-> FALSE]                                          \* a store call of the request failed

SoSupervisor == {"cadastrar", "list", "status", "get", "put"}

\* Mutant of Cadeia: the two middlewares are registered in the other order
CadeiaTrocada(route) ==
    IF route \in SoSupervisor
    THEN <<"verificarSupervisor", "verificarAutenticacao", "handler">>
    ELSE IF route = "registrar" THEN <<"verificarAutenticacao", "handler">>
    ELSE <<"handler">>

\* Mutant of Cadeia: PUT /monitoramento/:operadorId/status is registered
\* without verificarSupervisor
CadeiaPutAberto(route) ==
    IF route \in SoSupervisor \ {"put"}
    THEN <<"verificarAutenticacao", "verificarSupervisor", "handler">>
    ELSE IF route \in {"registrar", "put"} THEN <<"verificarAutenticacao", "handler">>
    ELSE <<"handler">>

\* The middleware chain each route is registered with
Cadeia(route) ==
    CASE route = "login-operador" -> <<"handler">>
      [] route = "login-supervisor" -> <<"handler">>
      [] route = "cadastrar" -> <<"verificarAutenticacao", "verificarSupervisor", "handler">>
      [] route = "list" -> <<"verificarAutenticacao", "verificarSupervisor", "handler">>
      [] route = "registrar" -> <<"verificarAutenticacao", "handler">>
      [] route = "status" -> <<"verificarAutenticacao", "verificarSupervisor", "handler">>
      [] route = "get" -> <<"verificarAutenticacao", "verificarSupervisor", "handler">>
      [] route = "put" -> <<"verificarAutenticacao", "verificarSupervisor", "handler">>
      [] route = "health" -> <<"handler">>

\* next(): the stage registered after `stage` on the route
Proximo(route, stage) ==
    LET c == Cadeia(route)
        i == CHOOSE k \in DOMAIN c : c[k] = stage
    IN  c[i + 1]

EmVoo(r) == req[r].pc \notin {"idle", "done"}

\* res.status(s).json(corpo) on request q
Responde(q, s, corpo) == [q EXCEPT !.pc = "done", !.status = s, !.corpo = corpo]

Entra(q, stage) == [q EXCEPT !.trace = Append(@, stage)]

-----------------------------------------------------------------------------
(* Access gate *)

\* the thread after the middleware step that took request q to q2: the chain
\* goes on synchronously until it answers or reaches the handler's first
\* await (the registrar handler has a synchronous part of its own before it)
Segue(r, q2) ==
    IF q2.pc = "done" \/ (q2.pc = "handler" /\ q2.route # "registrar") THEN 0 ELSE r

\* const token = req.session.token || req.cookies.session_token
TokenDoPedido(q) == IF q.token.kind # "none" THEN q.token ELSE q.cookie

\* const verificarAutenticacao = (req, res, next) => ...
verificarAutenticacao(r) ==
    /\ req[r].pc = "verificarAutenticacao" /\ thread = r
    /\ LET q == [Entra(req[r], "verificarAutenticacao") EXCEPT !.authAt = clock]
           token == TokenDoPedido(q)
           v == JwtVerify(token, JWT_SECRET, clock)
           q2 == IF token.kind = "none" THEN Responde(q, 401, NoCorpo)
                 ELSE IF v.ok
                     THEN [q EXCEPT !.user = v.claims,
                                    !.pc = Proximo(q.route, "verificarAutenticacao")]
                 ELSE Responde(q, 401, NoCorpo)
       IN  /\ req' = [req EXCEPT ![r] = q2]
           /\ thread' = Segue(r, q2)
    /\ UNCHANGED <<usuarios, monitoramento, session, clock, nreq, lastWrite, pingRun>>

\* const verificarSupervisor = (req, res, next) => ...
\* (req.user undefined: the property read throws, Express answers 500)
verificarSupervisor(r) ==
    /\ req[r].pc = "verificarSupervisor" /\ thread = r
    /\ LET q == Entra(req[r], "verificarSupervisor")
           q2 == IF q.user = NoClaims THEN Responde(q, 500, NoCorpo)
                 ELSE IF q.user.nivel_acesso # "supervisor" THEN Responde(q, 403, NoCorpo)
                 ELSE [q EXCEPT !.pc = Proximo(q.route, "verificarSupervisor")]
       IN  /\ req' = [req EXCEPT ![r] = q2]
           /\ thread' = Segue(r, q2)
    /\ UNCHANGED <<usuarios, monitoramento, session, clock, nreq, lastWrite, pingRun>>

-----------------------------------------------------------------------------
(* History of the committed writes to monitoramento *)

NuncaGravado == [c \in Colunas |-> [set |-> FALSE, v |-> 0]]
SemPings == [n |-> 0, antes |-> NoLinha]

\* lastWrite after a write of `payload` to the row of `id` commits
Gravado(lw, id, payload) ==
    [lw EXCEPT ![id] = [c \in Colunas |->
        IF c \in DOMAIN payload THEN [set |-> TRUE, v |-> payload[c]] ELSE @[c]]]

\* the row of `id` as a reader finds it (LinhaVazia when there is none)
LinhaDe(t, id) ==
    IF Posicoes(t, id) = {} THEN LinhaVazia(id) ELSE t[CHOOSE i \in Posicoes(t, id) : TRUE]

\* pingRun after a write to the row of `id` commits
Contado(pr, id, ping, antes) ==
    [pr EXCEPT ![id] =
        IF ~ping THEN SemPings
        ELSE IF @.n = 0 THEN [n |-> 1, antes |-> antes]
        ELSE [n |-> 2, antes |-> @.antes]]

-----------------------------------------------------------------------------
(* POST /auth/login-operador, POST /auth/login-supervisor *)

\* Mutant of Login: the token's access level comes from the route that was
\* called, not from the stored user
LoginNivelDaRota(r, soSupervisor) ==
    LET q == Entra(req[r], "handler")
        res == Single({u \in usuarios : u.email = q.email})
        user == res.data
        token == JwtSign(user.id, IF soSupervisor THEN "supervisor" ELSE "operador",
                         JWT_SECRET, clock)
    IN  IF res.error \/ (soSupervisor /\ user.nivel_acesso # "supervisor")
        THEN /\ req' = [req EXCEPT ![r] = Responde(q, 400, NoCorpo)]
             /\ UNCHANGED session
        ELSE IF ~BcryptCompare(q.senha, user.senha)
        THEN /\ req' = [req EXCEPT ![r] = Responde(q, 400, NoCorpo)]
             /\ UNCHANGED session
        ELSE /\ session' = [session EXCEPT ![q.sess] = token]
             /\ req' = [req EXCEPT ![r] = Responde(q, 200,
                    [NoCorpo EXCEPT !.userId = user.id,
                                    !.nivel_acesso = user.nivel_acesso,
                                    !.cookie = token])]

\* Mutant of Login: a failed login logs the session out
LoginApagaSessao(r, soSupervisor) ==
    LET q == Entra(req[r], "handler")
        res == Single({u \in usuarios : u.email = q.email})
        user == res.data
        token == JwtSign(user.id, user.nivel_acesso, JWT_SECRET, clock)
    IN  IF res.error \/ (soSupervisor /\ user.nivel_acesso # "supervisor")
        THEN /\ req' = [req EXCEPT ![r] = Responde(q, 400, NoCorpo)]
             /\ session' = [session EXCEPT ![q.sess] = NoToken]
        ELSE IF ~BcryptCompare(q.senha, user.senha)
        THEN /\ req' = [req EXCEPT ![r] = Responde(q, 400, NoCorpo)]
             /\ session' = [session EXCEPT ![q.sess] = NoToken]
        ELSE /\ session' = [session EXCEPT ![q.sess] = token]
             /\ req' = [req EXCEPT ![r] = Responde(q, 200,
                    [NoCorpo EXCEPT !.userId = user.id,
                                    !.nivel_acesso = user.nivel_acesso,
                                    !.cookie = token])]

\* The body shared by the two login handlers; soSupervisor is the extra
\* condition of login-supervisor (user.nivel_acesso !== 'supervisor')
Login(r, soSupervisor) ==
    LET q == Entra(req[r], "handler")
        res == Single({u \in usuarios : u.email = q.email})
        user == res.data
        token == JwtSign(user.id, user.nivel_acesso, JWT_SECRET, clock)
    IN  IF res.error \/ (soSupervisor /\ user.nivel_acesso # "supervisor")
        THEN /\ req' = [req EXCEPT ![r] = Responde(q, 400, NoCorpo)]
             /\ UNCHANGED session
        ELSE IF ~BcryptCompare(q.senha, user.senha)
        THEN /\ req' = [req EXCEPT ![r] = Responde(q, 400, NoCorpo)]
             /\ UNCHANGED session
        ELSE /\ session' = [session EXCEPT ![q.sess] = token]
             /\ req' = [req EXCEPT ![r] = Responde(q, 200,
                    [NoCorpo EXCEPT !.userId = user.id,
                                    !.nivel_acesso = user.nivel_acesso,
                                    !.cookie = token])]

LoginOperador(r) ==
    /\ req[r].pc = "handler" /\ thread = 0 /\ req[r].route = "login-operador"
    /\ Login(r, FALSE)
    /\ UNCHANGED <<usuarios, monitoramento, clock, nreq, thread, lastWrite, pingRun>>

LoginSupervisor(r) ==
    /\ req[r].pc = "handler" /\ thread = 0 /\ req[r].route = "login-supervisor"
    /\ Login(r, TRUE)
    /\ UNCHANGED <<usuarios, monitoramento, clock, nreq, thread, lastWrite, pingRun>>

-----------------------------------------------------------------------------
(* POST /operador/cadastrar *)

\* Mutant of CadastrarSelectEmail: the result of the e-mail lookup is not
\* looked at
CadastrarSemVerificar(r) ==
    /\ req[r].pc = "handler" /\ thread = 0 /\ req[r].route = "cadastrar"
    /\ req' = [req EXCEPT ![r] = [Entra(req[r], "handler") EXCEPT !.pc = "insertUsuario"]]
    /\ UNCHANGED <<usuarios, monitoramento, session, clock, nreq, thread, lastWrite, pingRun>>

\* bcrypt.hash, then the e-mail lookup
CadastrarSelectEmail(r) ==
    /\ req[r].pc = "handler" /\ thread = 0 /\ req[r].route = "cadastrar"
    /\ LET q == Entra(req[r], "handler")
           usuarioExistente == Single({u \in usuarios : u.email = q.email})
       IN  req' = [req EXCEPT ![r] =
                IF ~usuarioExistente.error THEN Responde(q, 400, NoCorpo)
                ELSE [q EXCEPT !.pc = "insertUsuario"]]
    /\ UNCHANGED <<usuarios, monitoramento, session, clock, nreq, thread, lastWrite, pingRun>>

\* the id the store gives the next row of usuarios
NovoId == Cardinality(usuarios) + 1

CadastrarInsertUsuario(r) ==
    /\ req[r].pc = "insertUsuario" /\ thread = 0
    /\ LET q == req[r]
           novoOperador == [id |-> NovoId, email |-> q.email, senha |-> BcryptHash(q.senha),
                            nivel_acesso |-> "operador", supervisor_id |-> q.user.userId]
       IN  /\ usuarios' = usuarios \cup {novoOperador}
           /\ req' = [req EXCEPT ![r] = [q EXCEPT !.achado = novoOperador,
                                                  !.pc = "insertMonitoramento"]]
    /\ UNCHANGED <<monitoramento, session, clock, nreq, thread, lastWrite, pingRun>>

\* the initial row of monitoramento; the insert's result is not looked at
CadastrarInsertMonitoramento(r) ==
    /\ req[r].pc = "insertMonitoramento" /\ thread = 0
    /\ LET q == req[r]
           id == q.achado.id
           payload == [operador_id |-> id, status_online |-> "false"]
           res == Insert(monitoramento, id, payload)
       IN  /\ monitoramento' = res.table
           /\ lastWrite' = IF res.error THEN lastWrite ELSE Gravado(lastWrite, id, payload)
           /\ pingRun' = IF res.error THEN pingRun
                         ELSE Contado(pingRun, id, FALSE, NoLinha)
           /\ req' = [req EXCEPT ![r] =
                    Responde(q, 201, [NoCorpo EXCEPT !.operador_id = id])]
    /\ UNCHANGED <<usuarios, session, clock, nreq, thread>>

-----------------------------------------------------------------------------
(* POST /monitoramento/registrar *)

\* Mutant of UpdateData: the ping case falls through into a clock-in
UpdateDataPingEntrada(tipo, userId, agora) ==
    CASE tipo \in {"entrada", "ping"} ->
            [operador_id |-> userId, ultima_atividade |-> agora,
             horario_entrada |-> agora, status_online |-> "true"]
      [] tipo = "saida" ->
            [operador_id |-> userId, ultima_atividade |-> agora,
             horario_saida |-> agora, status_online |-> "false"]
      [] tipo = "almoco_inicio" ->
            [operador_id |-> userId, ultima_atividade |-> agora,
             horario_almoco_inicio |-> agora]
      [] tipo = "almoco_fim" ->
            [operador_id |-> userId, ultima_atividade |-> agora,
             horario_almoco_fim |-> agora]

\* Mutant of UpdateData: the clock-out leaves the operator online
UpdateDataSaidaOnline(tipo, userId, agora) ==
    CASE tipo = "entrada" ->
            [operador_id |-> userId, ultima_atividade |-> agora,
             horario_entrada |-> agora, status_online |-> "true"]
      [] tipo = "saida" ->
            [operador_id |-> userId, ultima_atividade |-> agora,
             horario_saida |-> agora, status_online |-> "true"]
      [] tipo = "almoco_inicio" ->
            [operador_id |-> userId, ultima_atividade |-> agora,
             horario_almoco_inicio |-> agora]
      [] tipo = "almoco_fim" ->
            [operador_id |-> userId, ultima_atividade |-> agora,
             horario_almoco_fim |-> agora]
      [] tipo = "ping" ->
            [operador_id |-> userId, ultima_atividade |-> agora, status_online |-> "true"]
      [] OTHER ->
            [operador_id |-> userId, ultima_atividade |-> agora]

\* Mutant of UpdateData: the start of lunch takes the operator offline
UpdateDataAlmocoOffline(tipo, userId, agora) ==
    CASE tipo = "entrada" ->
            [operador_id |-> userId, ultima_atividade |-> agora,
             horario_entrada |-> agora, status_online |-> "true"]
      [] tipo = "saida" ->
            [operador_id |-> userId, ultima_atividade |-> agora,
             horario_saida |-> agora, status_online |-> "false"]
      [] tipo = "almoco_inicio" ->
            [operador_id |-> userId, ultima_atividade |-> agora,
             horario_almoco_inicio |-> agora, status_online |-> "false"]
      [] tipo = "almoco_fim" ->
            [operador_id |-> userId, ultima_atividade |-> agora,
             horario_almoco_fim |-> agora]
      [] tipo = "ping" ->
            [operador_id |-> userId, ultima_atividade |-> agora, status_online |-> "true"]
      [] OTHER ->
            [operador_id |-> userId, ultima_atividade |-> agora]

\* updateData after the switch on tipo
UpdateData(tipo, userId, agora) ==
    CASE tipo = "entrada" ->
            [operador_id |-> userId, ultima_atividade |-> agora,
             horario_entrada |-> agora, status_online |-> "true"]
      [] tipo = "saida" ->
            [operador_id |-> userId, ultima_atividade |-> agora,
             horario_saida |-> agora, status_online |-> "false"]
      [] tipo = "almoco_inicio" ->
            [operador_id |-> userId, ultima_atividade |-> agora,
             horario_almoco_inicio |-> agora]
      [] tipo = "almoco_fim" ->
            [operador_id |-> userId, ultima_atividade |-> agora,
             horario_almoco_fim |-> agora]
      [] tipo = "ping" ->
            [operador_id |-> userId, ultima_atividade |-> agora, status_online |-> "true"]
      [] OTHER ->   \* default: the switch adds nothing (and the handler returns)
            [operador_id |-> userId, ultima_atividade |-> agora]

\* Mutant of RegistrarInicio: the switch has no default case, an unknown
\* tipo goes on to the upsert with the two base keys
RegistrarInicioSemDefault(r) ==
    /\ req[r].pc = "handler" /\ thread = r /\ req[r].route = "registrar"
    /\ LET q == [Entra(req[r], "handler") EXCEPT !.agora = clock]
       IN  req' = [req EXCEPT ![r] = [q EXCEPT !.pc = "registrarUpsert"]]
    /\ thread' = 0
    /\ UNCHANGED <<usuarios, monitoramento, session, clock, nreq, lastWrite, pingRun>>

\* agora = new Date(), the switch and its default case: the synchronous part
\* of the handler, run in the same turn as the middleware chain
RegistrarInicio(r) ==
    /\ req[r].pc = "handler" /\ thread = r /\ req[r].route = "registrar"
    /\ LET q == [Entra(req[r], "handler") EXCEPT !.agora = clock]
       IN  req' = [req EXCEPT ![r] =
                IF q.tipo \notin Tipos THEN Responde(q, 400, NoCorpo)
                ELSE [q EXCEPT !.pc = "registrarUpsert"]]
    /\ thread' = 0
    /\ UNCHANGED <<usuarios, monitoramento, session, clock, nreq, lastWrite, pingRun>>

\* Mutant of RegistrarUpsert: the row is keyed by the operador_id of the
\* request body when it has one
RegistrarUpsertDoCorpo(r) ==
    /\ req[r].pc = "registrarUpsert" /\ thread = 0
    /\ LET q == req[r]
           id == IF q.operadorId # 0 THEN q.operadorId ELSE q.user.userId
           updateData == UpdateData(q.tipo, id, q.agora)
           res == Upsert(monitoramento, id, updateData)
       IN  /\ monitoramento' = res.table
           /\ lastWrite' = IF res.error THEN lastWrite ELSE Gravado(lastWrite, id, updateData)
           /\ pingRun' = IF res.error THEN pingRun
                         ELSE Contado(pingRun, id, q.tipo = "ping", LinhaDe(monitoramento, id))
           /\ req' = [req EXCEPT ![r] =
                    IF res.error THEN Responde(q, 500, NoCorpo)
                    ELSE Responde(q, 200, [NoCorpo EXCEPT !.horario = q.agora])]
    /\ UNCHANGED <<usuarios, session, clock, nreq, thread>>

RegistrarUpsert(r) ==
    /\ req[r].pc = "registrarUpsert" /\ thread = 0
    /\ LET q == req[r]
           id == q.user.userId
           updateData == UpdateData(q.tipo, id, q.agora)
           res == Upsert(monitoramento, id, updateData)
       IN  /\ monitoramento' = res.table
           /\ lastWrite' = IF res.error THEN lastWrite ELSE Gravado(lastWrite, id, updateData)
           /\ pingRun' = IF res.error THEN pingRun
                         ELSE Contado(pingRun, id, q.tipo = "ping", LinhaDe(monitoramento, id))
           /\ req' = [req EXCEPT ![r] =
                    IF res.error THEN Responde(q, 500, NoCorpo)
                    ELSE Responde(q, 200, [NoCorpo EXCEPT !.horario = q.agora])]
    /\ UNCHANGED <<usuarios, session, clock, nreq, thread>>

-----------------------------------------------------------------------------
(* GET /operador/list, GET /monitoramento/status *)

\* Mutant of ListOperadores: the supervisor_id filter is missing
ListOperadoresTodos(r) ==
    /\ req[r].pc = "handler" /\ thread = 0 /\ req[r].route = "list"
    /\ LET q == Entra(req[r], "handler")
       IN  req' = [req EXCEPT ![r] = Responde(q, 200, [NoCorpo EXCEPT !.lista =
                {[id |-> u.id, email |-> u.email, nivel_acesso |-> u.nivel_acesso] :
                    u \in usuarios}])]
    /\ UNCHANGED <<usuarios, monitoramento, session, clock, nreq, thread, lastWrite, pingRun>>

ListOperadores(r) ==
    /\ req[r].pc = "handler" /\ thread = 0 /\ req[r].route = "list"
    /\ LET q == Entra(req[r], "handler")
           operadores == {u \in usuarios : u.supervisor_id = q.user.userId}
       IN  req' = [req EXCEPT ![r] = Responde(q, 200, [NoCorpo EXCEPT !.lista =
                {[id |-> u.id, email |-> u.email, nivel_acesso |-> u.nivel_acesso] :
                    u \in operadores}])]
    /\ UNCHANGED <<usuarios, monitoramento, session, clock, nreq, thread, lastWrite, pingRun>>

\* usuarios joined with monitoramento, absent values mapped to false / null
StatusOperadores(r) ==
    /\ req[r].pc = "handler" /\ thread = 0 /\ req[r].route = "status"
    /\ LET q == Entra(req[r], "handler")
           operadores == {u \in usuarios : u.supervisor_id = q.user.userId}
           m(u) == LinhaDe(monitoramento, u.id)
       IN  req' = [req EXCEPT ![r] = Responde(q, 200, [NoCorpo EXCEPT !.lista =
                {[id |-> u.id,
                  online |-> IF m(u).status_online = "true" THEN "true" ELSE "false",
                  horarios |-> [m(u) EXCEPT !.status_online = "null"]] :
                    u \in operadores}])]
    /\ UNCHANGED <<usuarios, monitoramento, session, clock, nreq, thread, lastWrite, pingRun>>

-----------------------------------------------------------------------------
(* GET /monitoramento/:operadorId, PUT /monitoramento/:operadorId/status *)

\* Mutant of SelectOperador: the supervisor_id filter is missing
SelectOperadorDeQualquer(operadorId, supervisorId) ==
    Single({u \in usuarios : u.id = operadorId})

\* from('usuarios').select(..).eq('id', operadorId).eq('supervisor_id', req.user.userId).single()
SelectOperador(operadorId, supervisorId) ==
    Single({u \in usuarios : u.id = operadorId /\ u.supervisor_id = supervisorId})

\* monitoramento || { status_online: false }: the object literal has the
\* one key, the timestamps are absent from it
StatusPadrao == [status_online |-> "false"]

GetSelectOperador(r) ==
    /\ req[r].pc = "handler" /\ thread = 0 /\ req[r].route = "get"
    /\ LET q == Entra(req[r], "handler")
           operador == SelectOperador(q.operadorId, q.user.userId)
       IN  req' = [req EXCEPT ![r] =
                IF operador.error THEN Responde(q, 404, NoCorpo)
                ELSE [q EXCEPT !.achado = operador.data, !.pc = "getMonitoramento"]]
    /\ UNCHANGED <<usuarios, monitoramento, session, clock, nreq, thread, lastWrite, pingRun>>

\* Mutant of GetSelectMonitoramento: the row that was read is dropped, the
\* default is sent every time
GetSelectMonitoramentoPadrao(r) ==
    /\ req[r].pc = "getMonitoramento" /\ thread = 0
    /\ LET q == req[r]
       IN  req' = [req EXCEPT ![r] = Responde(q, 200,
                [NoCorpo EXCEPT !.operador = q.achado.id, !.status = StatusPadrao])]
    /\ UNCHANGED <<usuarios, monitoramento, session, clock, nreq, thread, lastWrite, pingRun>>

\* Mutant of GetSelectMonitoramento: a missing row is created before the
\* default is sent
GetSelectMonitoramentoPersiste(r) ==
    /\ req[r].pc = "getMonitoramento" /\ thread = 0
    /\ LET q == req[r]
           m == SingleMonitoramento(monitoramento, q.operadorId)
       IN  /\ req' = [req EXCEPT ![r] = Responde(q, 200,
                [NoCorpo EXCEPT !.operador = q.achado.id,
                                !.status = IF m.error THEN StatusPadrao ELSE m.data])]
           /\ monitoramento' =
                IF m.error
                THEN Insert(monitoramento, q.operadorId,
                            [operador_id |-> q.operadorId, status_online |-> "false"]).table
                ELSE monitoramento
    /\ UNCHANGED <<usuarios, session, clock, nreq, thread, lastWrite, pingRun>>

GetSelectMonitoramento(r) ==
    /\ req[r].pc = "getMonitoramento" /\ thread = 0
    /\ LET q == req[r]
           m == SingleMonitoramento(monitoramento, q.operadorId)
       IN  req' = [req EXCEPT ![r] = Responde(q, 200,
                [NoCorpo EXCEPT !.operador = q.achado.id,
                                !.status = IF m.error THEN StatusPadrao ELSE m.data])]
    /\ UNCHANGED <<usuarios, monitoramento, session, clock, nreq, thread, lastWrite, pingRun>>

PutSelectOperador(r) ==
    /\ req[r].pc = "handler" /\ thread = 0 /\ req[r].route = "put"
    /\ LET q == Entra(req[r], "handler")
           operador == SelectOperador(q.operadorId, q.user.userId)
       IN  req' = [req EXCEPT ![r] =
                IF operador.error THEN Responde(q, 404, NoCorpo)
                ELSE [q EXCEPT !.achado = operador.data, !.pc = "putUpsert"]]
    /\ UNCHANGED <<usuarios, monitoramento, session, clock, nreq, thread, lastWrite, pingRun>>

\* Mutant of PutUpsert: the supervisor's status set stamps last-activity as
\* the events do
PutUpsertCarimba(r) ==
    /\ req[r].pc = "putUpsert" /\ thread = 0
    /\ LET q == req[r]
           id == q.operadorId
           payload == [operador_id |-> id, status_online |-> q.status_online,
                       ultima_atividade |-> clock]
           res == Upsert(monitoramento, id, payload)
       IN  /\ monitoramento' = res.table
           /\ lastWrite' = IF res.error THEN lastWrite ELSE Gravado(lastWrite, id, payload)
           /\ pingRun' = IF res.error THEN pingRun ELSE Contado(pingRun, id, FALSE, NoLinha)
           /\ req' = [req EXCEPT ![r] =
                    IF res.error THEN Responde(q, 500, NoCorpo)
                    ELSE Responde(q, 200, [NoCorpo EXCEPT !.operador_id = id,
                                                          !.online = q.status_online])]
    /\ UNCHANGED <<usuarios, session, clock, nreq, thread>>

PutUpsert(r) ==
    /\ req[r].pc = "putUpsert" /\ thread = 0
    /\ LET q == req[r]
           id == q.operadorId
           payload == [operador_id |-> id, status_online |-> q.status_online]
           res == Upsert(monitoramento, id, payload)
       IN  /\ monitoramento' = res.table
           /\ lastWrite' = IF res.error THEN lastWrite ELSE Gravado(lastWrite, id, payload)
           /\ pingRun' = IF res.error THEN pingRun ELSE Contado(pingRun, id, FALSE, NoLinha)
           /\ req' = [req EXCEPT ![r] =
                    IF res.error THEN Responde(q, 500, NoCorpo)
                    ELSE Responde(q, 200, [NoCorpo EXCEPT !.operador_id = id,
                                                          !.online = q.status_online])]
    /\ UNCHANGED <<usuarios, session, clock, nreq, thread>>

-----------------------------------------------------------------------------
(* GET /health *)

Health(r) ==
    /\ req[r].pc = "handler" /\ thread = 0 /\ req[r].route = "health"
    /\ req' = [req EXCEPT ![r] = Responde(Entra(req[r], "handler"), 200, NoCorpo)]
    /\ UNCHANGED <<usuarios, monitoramento, session, clock, nreq, thread, lastWrite, pingRun>>

-----------------------------------------------------------------------------
(* The environment: time and the clients *)

\* Time passes while a login handler waits for the store and bcrypt, before
\* it signs its token.  (The other readers of the clock, the authentication
\* stage and registrar's `agora`, read it in the turn in which the request
\* arrives: see Chega.)
Tick ==
    /\ clock < MaxClock
    /\ thread = 0
    /\ \E r \in DOMAIN req :
        req[r].pc = "handler" /\ req[r].route \in {"login-operador", "login-supervisor"}
    /\ clock' = clock + 1
    /\ UNCHANGED <<usuarios, monitoramento, session, req, nreq, thread, lastWrite, pingRun>>

\* tokens signed by somebody who does not hold the secret, one of them expired
Forjado == JwtSign(1, "supervisor", "outro-segredo", MaxClock)
ForjadoExpirado == JwtSign(1, "supervisor", "outro-segredo", 0 - ExpiresIn)

\* what a client may send as the session_token cookie: nothing, garbage, a
\* forgery, or a token some login has handed out
Cookies == {NoToken, Malformed, Forjado, ForjadoExpirado} \cup {session[s] : s \in Sessions}

\* the cookie is looked at only when the session holds no token
\* (req.session.token || req.cookies.session_token): the clients of a
\* session that holds one send no cookie
Envia(s, cookies) == IF session[s].kind = "none" THEN cookies ELSE {NoToken}

Emails == {"sup1", "sup2", "op3", "op4", "novo"}
Senhas == {"s1", "s2"}

\* Request q arrives in slot r, any time after the last event:
\* express-session loads the session, the router enters the route's chain
Chega(r, q) ==
    /\ nreq < MaxRequests
    /\ thread = 0
    /\ ~EmVoo(r)
    /\ \A o \in Slots : o < r => EmVoo(o)
    /\ nreq' = nreq + 1
    /\ req' = [o \in Slots |->
                IF o = r
                THEN [q EXCEPT !.token = session[q.sess],
                               !.pc = Cadeia(q.route)[1],
                               !.conc = \E x \in Slots \ {r} : EmVoo(x)]
                ELSE IF EmVoo(o) THEN [req[o] EXCEPT !.conc = TRUE]
                ELSE req[o]]
    /\ thread' = IF Cadeia(q.route)[1] = "handler" THEN 0 ELSE r
    /\ clock' \in clock..MaxClock
    /\ UNCHANGED <<usuarios, monitoramento, session, lastWrite, pingRun>>

Pedido(route, s, cookie) == [ReqVazio EXCEPT !.route = route, !.sess = s, !.cookie = cookie]

ChegaLogin(r, sessoes, cookies) ==
    \E s \in sessoes : \E route \in {"login-operador", "login-supervisor"}, c \in Envia(s, cookies),
       email \in Emails, senha \in Senhas :
        Chega(r, [Pedido(route, s, c) EXCEPT !.email = email, !.senha = senha])

ChegaCadastrar(r, sessoes, cookies, emails) ==
    \E s \in sessoes : \E c \in Envia(s, cookies), email \in emails :
        /\ Cardinality(usuarios)
             + Cardinality({o \in Slots : EmVoo(o) /\ req[o].route = "cadastrar"})
           < MaxUsuarios
        /\ Chega(r, [Pedido("cadastrar", s, c) EXCEPT !.email = email, !.senha = "s1"])

ChegaRegistrar(r, sessoes, cookies, tipos) ==
    \E s \in sessoes : \E c \in Envia(s, cookies), tipo \in tipos :
        Chega(r, [Pedido("registrar", s, c) EXCEPT !.tipo = tipo])

ChegaPut(r, sessoes, cookies, alvos) ==
    \E s \in sessoes : \E c \in Envia(s, cookies), id \in alvos, so \in {"true", "false"} :
        Chega(r, [Pedido("put", s, c) EXCEPT !.operadorId = id, !.status_online = so])

ChegaGet(r, sessoes, cookies, alvos) ==
    \E s \in sessoes : \E c \in Envia(s, cookies), id \in alvos :
        Chega(r, [Pedido("get", s, c) EXCEPT !.operadorId = id])

ChegaLeitura(r, sessoes, cookies) ==
    \E s \in sessoes : \E route \in {"list", "status", "health"}, c \in Envia(s, cookies) :
        Chega(r, Pedido(route, s, c))

-----------------------------------------------------------------------------
(* Initial state: two supervisors, an operator under each.  Operator 3 was  *)
(* created before the monitoramento table was in use and has no row yet;    *)
(* operator 4 was registered through /operador/cadastrar.  Session 1 is     *)
(* logged in as supervisor 1 and session 2 as operator 3, both at time 0;   *)
(* session 3 has not logged in.                                             *)

Usuario(id, email, senha, nivel_acesso, supervisor_id) ==
    [id |-> id, email |-> email, senha |-> BcryptHash(senha),
     nivel_acesso |-> nivel_acesso, supervisor_id |-> supervisor_id]

Init ==
    /\ usuarios = {Usuario(1, "sup1", "s1", "supervisor", Null),
                   Usuario(2, "sup2", "s2", "supervisor", Null),
                   Usuario(3, "op3", "s1", "operador", 1),
                   Usuario(4, "op4", "s2", "operador", 2)}
    /\ monitoramento = <<[LinhaVazia(4) EXCEPT !.status_online = "false"]>>
    /\ session = [s \in Sessions |->
                    IF s = 1 THEN JwtSign(1, "supervisor", JWT_SECRET, 0)
                    ELSE IF s = 2 THEN JwtSign(3, "operador", JWT_SECRET, 0)
                    ELSE NoToken]
    /\ clock = 0
    /\ req = [r \in Slots |-> ReqVazio]
    /\ nreq = 0
    /\ thread = 0
    /\ lastWrite = [id \in Ids |-> NuncaGravado]
    /\ pingRun = [id \in Ids |-> SemPings]

\* The status ledger under concurrency: the three routes that write
\* monitoramento, called from the two logged-in sessions
Next ==
    \/ \E r \in Slots : ChegaCadastrar(r, {1}, {NoToken}, {"novo"})
    \/ \E r \in Slots : ChegaRegistrar(r, {2}, {NoToken}, Tipos)
    \/ \E r \in Slots : ChegaPut(r, {1}, {NoToken}, {3, MaxUsuarios})
    \/ \E r \in Slots : verificarAutenticacao(r)
    \/ \E r \in Slots : verificarSupervisor(r)
    \/ \E r \in Slots : CadastrarSelectEmail(r)
    \/ \E r \in Slots : CadastrarInsertUsuario(r)
    \/ \E r \in Slots : CadastrarInsertMonitoramento(r)
    \/ \E r \in Slots : RegistrarInicio(r)
    \/ \E r \in Slots : RegistrarUpsert(r)
    \/ \E r \in Slots : PutSelectOperador(r)
    \/ \E r \in Slots : PutUpsert(r)

Spec == Init /\ [][Next]_vars

\* The access gate and the handlers behind it, one request at a time, from
\* any session and with any cookie
ChegaGate ==
    /\ nreq < MaxGate
    /\ \/ ChegaLogin(1, {3}, {NoToken})
       \/ ChegaCadastrar(1, Sessions, Cookies, {"op3", "novo"})
       \/ ChegaRegistrar(1, Sessions, Cookies, {"entrada", "ping", "outro", ""})
       \/ ChegaPut(1, Sessions, Cookies, Ids \ {2})
       \/ ChegaGet(1, Sessions, Cookies, Ids \ {2})
       \/ ChegaLeitura(1, Sessions, Cookies)

NextGate ==
    \/ ChegaGate
    \/ verificarAutenticacao(1)
    \/ verificarSupervisor(1)
    \/ LoginOperador(1)
    \/ LoginSupervisor(1)
    \/ CadastrarSelectEmail(1)
    \/ CadastrarInsertUsuario(1)
    \/ CadastrarInsertMonitoramento(1)
    \/ RegistrarInicio(1)
    \/ RegistrarUpsert(1)
    \/ ListOperadores(1)
    \/ StatusOperadores(1)
    \/ GetSelectOperador(1)
    \/ GetSelectMonitoramento(1)
    \/ PutSelectOperador(1)
    \/ PutUpsert(1)
    \/ Health(1)
    \/ Tick

SpecGate == Init /\ [][NextGate]_vars

-----------------------------------------------------------------------------
(* Properties of the status ledger, checked under Spec *)

Respondido(r) == req[r].pc = "done"

\* the request wrote monitoramento and was answered with a success
Gravou(q) ==
    /\ q.pc = "done" /\ q.status = 200
    /\ q.route \in {"registrar", "put"}

\* the row key and the payload of the write of request q
AlvoDe(q) == IF q.route = "registrar" THEN q.user.userId ELSE q.operadorId
PayloadDe(q) ==
    IF q.route = "registrar" THEN UpdateData(q.tipo, q.user.userId, q.agora)
    ELSE [operador_id |-> q.operadorId, status_online |-> q.status_online]

\* both slots hold answered requests that were in flight at the same time
Concorrentes == \A r \in Slots : Respondido(r) /\ req[r].conc

\* C1: in every reachable state, whatever the interleaving of
\* /operador/cadastrar, /monitoramento/registrar and
\* /monitoramento/:operadorId/status, monitoramento holds at most one row
\* per operator id.
C1_UmaLinhaPorOperador ==
    \A id \in Ids : Cardinality(Posicoes(monitoramento, id)) <= 1

\* The three routes have all written: cadastrar answered 201 for a new
\* operator whose row a concurrent PUT has set online, and operator 3 has
\* registered an event.
C1_Witness ==
    /\ Posicoes(monitoramento, 3) # {}
    /\ \E r \in Slots :
        /\ req[r].route = "cadastrar" /\ Respondido(r) /\ req[r].status = 201
        /\ req[r].conc
        /\ LinhaDe(monitoramento, req[r].corpo.operador_id).status_online = "true"

\* C2: two registrar requests with recognized event kinds for the same
\* operator that ran concurrently have both been answered 200 and left
\* exactly one row for that operator.
C2_RegistrarConcorrente ==
    (/\ Concorrentes
     /\ \A r \in Slots : /\ req[r].route = "registrar" /\ req[r].tipo \in Tipos
                         /\ req[r].user # NoClaims
     /\ req[1].user.userId = req[2].user.userId)
    => /\ \A r \in Slots : req[r].status = 200
       /\ Cardinality(Posicoes(monitoramento, req[1].user.userId)) = 1

\* The two concurrent registrar calls were the only requests so far, for
\* operator 3, who had no row: both were answered 200.
C2_Witness ==
    /\ nreq = 2 /\ Concorrentes
    /\ \A r \in Slots : /\ req[r].route = "registrar" /\ req[r].tipo \in Tipos
                        /\ req[r].user.userId = 3 /\ req[r].status = 200
    /\ Cardinality(Posicoes(monitoramento, 3)) = 1

\* C3: every column of a row holds the value of the last committed write
\* that set that column, and after two concurrent writes to a row that did
\* not exist the row is what one of the two serial orders of the two writes
\* gives.
C3_UltimaEscritaVence ==
    /\ \A id \in Ids, c \in Colunas :
        lastWrite[id][c].set =>
            /\ Posicoes(monitoramento, id) # {}
            /\ LinhaDe(monitoramento, id)[c] = lastWrite[id][c].v
    /\ (/\ nreq = 2 /\ Concorrentes
        /\ Gravou(req[1]) /\ Gravou(req[2])
        /\ AlvoDe(req[1]) = AlvoDe(req[2]))
       => LET id == AlvoDe(req[1])
              antes == IF id = 4 THEN [LinhaVazia(4) EXCEPT !.status_online = "false"]
                       ELSE LinhaVazia(id)
          IN  LinhaDe(monitoramento, id) \in
                {Merge(Merge(antes, PayloadDe(req[1])), PayloadDe(req[2])),
                 Merge(Merge(antes, PayloadDe(req[2])), PayloadDe(req[1]))}

\* A clock-out stamped at time 0 committed after a concurrent clock-in
\* stamped at time 1: the row holds the clock-out's values in the columns
\* both set, and the clock-in's entrance time.
C3_Witness ==
    /\ Concorrentes
    /\ \E r, o \in Slots :
        /\ Gravou(req[r]) /\ Gravou(req[o])
        /\ req[r].tipo = "entrada" /\ req[r].agora = 1
        /\ req[o].tipo = "saida" /\ req[o].agora = 0
    /\ LinhaDe(monitoramento, 3).ultima_atividade = 0
    /\ LinhaDe(monitoramento, 3).status_online = "false"
    /\ LinhaDe(monitoramento, 3).horario_entrada = 1

\* C10: after two pings in succession for an operator the row has
\* status_online true and its entrance, lunch-start, lunch-end and exit
\* times are those of the row before the first ping.
C10_PingDuasVezes ==
    \A id \in Ids :
        pingRun[id].n = 2 =>
            /\ LinhaDe(monitoramento, id).status_online = "true"
            /\ \A c \in Horarios \ {"ultima_atividade"} :
                LinhaDe(monitoramento, id)[c] = pingRun[id].antes[c]

\* Operator 3 clocked in and then pinged twice, the second ping later than
\* the clock-in: the entrance time stayed, last-activity moved.
C10_Witness ==
    /\ pingRun[3].n = 2
    /\ pingRun[3].antes.horario_entrada # Null
    /\ LinhaDe(monitoramento, 3).horario_entrada = pingRun[3].antes.horario_entrada
    /\ LinhaDe(monitoramento, 3).ultima_atividade # pingRun[3].antes.ultima_atividade

-----------------------------------------------------------------------------
(* Properties of the access gate and of the routes behind it, checked under *)
(* SpecGate                                                                 *)

Correu(q, stage) == \E i \in DOMAIN q.trace : q.trace[i] = stage

\* the token the authentication stage looked at had expired when it ran
Expirado(q) ==
    /\ q.authAt # Null
    /\ TokenDoPedido(q).kind = "jwt"
    /\ TokenDoPedido(q).exp <= q.authAt

\* the request carried no token, a malformed one, or one signed with
\* another secret
SemCredencial(q) ==
    \/ TokenDoPedido(q).kind \in {"none", "malformed"}
    \/ TokenDoPedido(q).kind = "jwt" /\ TokenDoPedido(q).secret # JWT_SECRET

\* C4: on every route, the role check runs only as the second stage, after
\* the authentication stage has run first on the same request and attached
\* the decoded claims; it never runs with no claims attached.
C4_AutenticaAntesDeAutorizar ==
    \A r \in Slots :
        /\ req[r].pc = "verificarSupervisor" =>
            /\ req[r].trace = <<"verificarAutenticacao">>
            /\ req[r].user # NoClaims
        /\ Correu(req[r], "verificarSupervisor") =>
            /\ Len(req[r].trace) >= 2
            /\ req[r].trace[1] = "verificarAutenticacao"
            /\ req[r].trace[2] = "verificarSupervisor"
            /\ req[r].user # NoClaims
            /\ req[r].status # 500

\* The role check has run on a request and turned it away.
C4_Witness ==
    \E r \in Slots :
        /\ Correu(req[r], "verificarSupervisor")
        /\ Respondido(r) /\ req[r].status = 403

\* C5: a request whose token had expired when the authentication stage
\* looked at it is answered 401 by that stage and neither the role check
\* nor the handler runs, whether the token's signature is valid or not.
C5_ExpiradoRejeitado ==
    \A r \in Slots :
        Expirado(req[r]) =>
            /\ Respondido(r) /\ req[r].status = 401
            /\ req[r].trace = <<"verificarAutenticacao">>
            /\ req[r].user = NoClaims

\* A token this server signed, presented after its eight hours, was
\* turned away.
C5_Witness ==
    \E r \in Slots :
        /\ Expirado(req[r])
        /\ TokenDoPedido(req[r]).secret = JWT_SECRET
        /\ req[r].status = 401

C6_Estado ==
    \A r \in Slots :
        (req[r].authAt # Null /\ SemCredencial(req[r])) =>
            /\ Respondido(r) /\ req[r].status = 401
            /\ req[r].trace = <<"verificarAutenticacao">>

C6_Passo ==
    \A r \in Slots :
        (req[r].pc = "verificarAutenticacao" /\ SemCredencial(req[r])) =>
            /\ usuarios' = usuarios
            /\ monitoramento' = monitoramento
            /\ session' = session

\* C6: a request to a protected route with no token, a malformed token or
\* a token signed with another secret is answered 401, no later middleware
\* or handler runs for it, and its steps leave usuarios and monitoramento
\* unchanged.
C6_SemTokenRejeitado == []C6_Estado /\ [][C6_Passo]_vars

\* A forged supervisor token sent to the status-set route was turned away.
C6_Witness ==
    \E r \in Slots :
        /\ req[r].route = "put" /\ req[r].status = 401
        /\ TokenDoPedido(req[r]) = Forjado

\* the request is on a supervisor-only route with verified claims of
\* another access level
NaoSupervisor(q) ==
    /\ q.route \in SoSupervisor
    /\ q.user # NoClaims
    /\ q.user.nivel_acesso # "supervisor"

C7_Estado ==
    \A r \in Slots :
        NaoSupervisor(req[r]) =>
            /\ ~Correu(req[r], "handler")
            /\ req[r].pc \in {"verificarSupervisor", "done"}
            /\ Respondido(r) => req[r].status = 403

C7_Passo ==
    \A r \in Slots :
        (NaoSupervisor(req[r]) /\ req'[r] # req[r]) =>
            /\ usuarios' = usuarios
            /\ monitoramento' = monitoramento

\* C7: on each supervisor-only route a request whose verified claims carry
\* another access level is answered 403, its handler does not run, and no
\* step of it creates or changes a row of usuarios or monitoramento.
C7_SoSupervisores == []C7_Estado /\ [][C7_Passo]_vars

\* Operator 3 called the status-set route on their own row and got 403.
C7_Witness ==
    \E r \in Slots :
        /\ req[r].route = "put" /\ req[r].operadorId = 3
        /\ req[r].user = [userId |-> 3, nivel_acesso |-> "operador"]
        /\ req[r].status = 403

\* C8: a login answered 200 was for a stored user with that e-mail and
\* password; the token it stored in the session and sent as the cookie
\* decodes to that user's id and access level, and the body carries the
\* same id and access level.
C8_LoginEmiteNivelGuardado ==
    \A r \in Slots :
        (/\ req[r].route \in {"login-operador", "login-supervisor"}
         /\ Respondido(r) /\ req[r].status = 200)
        => \E u \in usuarios :
            /\ u.email = req[r].email
            /\ BcryptCompare(req[r].senha, u.senha)
            /\ session[req[r].sess] = req[r].corpo.cookie
            /\ LET token == req[r].corpo.cookie
                   v == JwtVerify(token, JWT_SECRET, token.exp - 1)
               IN  /\ v.ok
                   /\ v.claims = [userId |-> u.id, nivel_acesso |-> u.nivel_acesso]
            /\ req[r].corpo.userId = u.id
            /\ req[r].corpo.nivel_acesso = u.nivel_acesso

\* A supervisor logged in through /auth/login-operador: token and body
\* say supervisor.
C8_Witness ==
    \E r \in Slots :
        /\ req[r].route = "login-operador" /\ req[r].status = 200
        /\ req[r].corpo.nivel_acesso = "supervisor"
        /\ session[req[r].sess].nivel_acesso = "supervisor"

\* supervisor S (verified claims) asked for an operator id that is no user
\* with supervisor reference S
ForaDaSupervisao(q) ==
    /\ q.route \in {"get", "put"}
    /\ q.user # NoClaims /\ q.user.nivel_acesso = "supervisor"
    /\ ~\E u \in usuarios : u.id = q.operadorId /\ u.supervisor_id = q.user.userId

C9_Estado ==
    \A r \in Slots :
        ForaDaSupervisao(req[r]) =>
            /\ req[r].pc \in {"verificarSupervisor", "handler", "done"}
            /\ Respondido(r) => (req[r].status = 404 /\ req[r].corpo = NoCorpo)

C9_Passo ==
    \A r \in Slots :
        (ForaDaSupervisao(req[r]) /\ req'[r] # req[r]) => monitoramento' = monitoramento

\* C9: GET /monitoramento/X and PUT /monitoramento/X/status by a
\* supervisor S, for an id X that is no user or a user whose supervisor is
\* not S, are answered 404 with nothing of X in the body, and no step of
\* them changes monitoramento.
C9_NaoSupervisionado == []C9_Estado /\ [][C9_Passo]_vars

\* Supervisor 1 tried to set operator 4, who belongs to supervisor 2 and
\* has a row: 404, the row untouched.
C9_Witness ==
    \E r \in Slots :
        /\ req[r].route = "put" /\ req[r].operadorId = 4 /\ req[r].status_online = "true"
        /\ req[r].user.userId = 1
        /\ req[r].status = 404
        /\ LinhaDe(monitoramento, 4).status_online = "false"

-----------------------------------------------------------------------------
(* Registration and the roster, checked under SpecGate *)

\* the operators a /operador/cadastrar of this behaviour has created
\* (no initial user has the e-mail)
Cadastrados == {u \in usuarios : u.email = "novo"}

\* C11: after POST /operador/cadastrar by supervisor S has succeeded, the
\* array a following GET /operador/list by S returns has an entry for the
\* new operator's id, and that entry carries online = false.
C11_CadastrarDepoisListar ==
    \A r \in Slots :
        (req[r].route = "list" /\ Respondido(r) /\ req[r].status = 200)
        => \A u \in Cadastrados :
            u.supervisor_id = req[r].user.userId
            => \E e \in req[r].corpo.lista :
                /\ e.id = u.id
                /\ "online" \in DOMAIN e
                /\ e.online = "false"

-----------------------------------------------------------------------------
(* The events of /monitoramento/registrar and the supervisor's status set,  *)
(* checked under Spec                                                       *)

\* request r's registrar upsert commits in this step and is answered 200
RegistrarGrava(r) ==
    /\ req[r].pc = "registrarUpsert"
    /\ req'[r].pc = "done" /\ req'[r].status = 200

C12_Passo ==
    \A r \in Slots :
        RegistrarGrava(r) =>
            LET id == req[r].user.userId
                row == LinhaDe(monitoramento', id)
            IN  /\ Posicoes(monitoramento', id) # {}
                /\ req[r].tipo = "entrada" =>
                        row.horario_entrada = req[r].agora /\ row.status_online = "true"
                /\ req[r].tipo = "saida" =>
                        row.horario_saida = req[r].agora /\ row.status_online = "false"

\* C12: when a successful `entrada` commits, the caller's row has the
\* entrance timestamp equal to the request time and online = true; when a
\* successful `saida` commits, it has the exit timestamp equal to the
\* request time and online = false; whatever the row was before, also when
\* there was none.
C12_EntradaSaida == [][C12_Passo]_vars

\* Operator 3, who had no row, clocked in and out: these were the only two
\* requests, the clock-out committed last, and the row holds both request
\* times and is offline.
C12_Witness ==
    /\ nreq = 2
    /\ \A r \in Slots : Gravou(req[r]) /\ req[r].route = "registrar"
    /\ req[1].tipo = "entrada" /\ req[2].tipo = "saida"
    /\ LinhaDe(monitoramento, 3).horario_entrada = req[1].agora
    /\ LinhaDe(monitoramento, 3).horario_saida = req[2].agora
    /\ LinhaDe(monitoramento, 3).status_online = "false"

\* the column a lunch event stamps
ColunaAlmoco(tipo) ==
    IF tipo = "almoco_inicio" THEN "horario_almoco_inicio" ELSE "horario_almoco_fim"

C13_Passo ==
    \A r \in Slots :
        (RegistrarGrava(r) /\ req[r].tipo \in {"almoco_inicio", "almoco_fim"}) =>
            LET id == req[r].user.userId
                antes == LinhaDe(monitoramento, id)
                depois == LinhaDe(monitoramento', id)
            IN  /\ Posicoes(monitoramento', id) # {}
                /\ depois[ColunaAlmoco(req[r].tipo)] = req[r].agora
                /\ depois.ultima_atividade = req[r].agora
                /\ \A c \in Colunas \ {ColunaAlmoco(req[r].tipo), "ultima_atividade"} :
                        depois[c] = antes[c]

\* C13: when a successful `almoco_inicio` or `almoco_fim` commits, the
\* caller's row has that lunch timestamp and last-activity equal to the
\* request time and every other column, the online flag among them, as it
\* was before the event, for an online operator as for an offline one.
C13_AlmocoNaoMudaOnline == [][C13_Passo]_vars

\* Operator 3 was online with a clock-in on record when the last request, a
\* start of lunch that overlapped no other request, committed: still online.
C13_Witness ==
    /\ Gravou(req[1]) /\ ~req[1].conc
    /\ req[1].route = "registrar" /\ req[1].tipo = "almoco_inicio"
    /\ LinhaDe(monitoramento, 3).horario_almoco_inicio = req[1].agora
    /\ LinhaDe(monitoramento, 3).horario_entrada # Null
    /\ LinhaDe(monitoramento, 3).status_online = "true"

\* request r's PUT upsert commits in this step and is answered 200
PutGrava(r) ==
    /\ req[r].pc = "putUpsert"
    /\ req'[r].pc = "done" /\ req'[r].status = 200

C15_Passo ==
    \A r \in Slots :
        /\ PutGrava(r) =>
            LET id == req[r].operadorId
                antes == LinhaDe(monitoramento, id)
                depois == LinhaDe(monitoramento', id)
            IN  /\ Posicoes(monitoramento', id) # {}
                /\ depois.status_online = req[r].status_online
                /\ \A c \in Horarios : depois[c] = antes[c]
        /\ RegistrarGrava(r) =>
            LinhaDe(monitoramento', req[r].user.userId).ultima_atividade = req[r].agora

\* C15: when a successful PUT /monitoramento/:operadorId/status commits,
\* the operator has a row whose online flag is the boolean the caller
\* supplied and whose five timestamps (last-activity among them) are as they
\* were before, null when the row is new; when a successful registrar event
\* commits, the row's last-activity is that event's request time.
C15_PutSoMudaOnline == [][C15_Passo]_vars

\* Operator 3 had clocked in (entrance and last-activity on record) when
\* the last request, the supervisor's PUT of false that overlapped no other
\* request, committed: offline, the timestamps still there.
C15_Witness ==
    /\ Gravou(req[1]) /\ ~req[1].conc
    /\ req[1].route = "put" /\ req[1].operadorId = 3 /\ req[1].status_online = "false"
    /\ LinhaDe(monitoramento, 3).status_online = "false"
    /\ LinhaDe(monitoramento, 3).horario_entrada # Null
    /\ LinhaDe(monitoramento, 3).ultima_atividade # Null

\* request r's /operador/cadastrar sends its 201 in this step
CadastrarResponde(r) ==
    /\ req[r].pc = "insertMonitoramento"
    /\ req'[r].pc = "done" /\ req'[r].status = 201

C19_Passo ==
    \A r \in Slots :
        CadastrarResponde(r) =>
            LET X == req'[r].corpo.operador_id
                S == req[r].user.userId
            IN  /\ \E u \in usuarios' :
                    u.id = X /\ u.nivel_acesso = "operador" /\ u.supervisor_id = S
                /\ Posicoes(monitoramento', X) # {}
                /\ LinhaDe(monitoramento', X) = [LinhaVazia(X) EXCEPT !.status_online = "false"]

\* C19: at the moment POST /operador/cadastrar by supervisor S answers 201
\* with operador_id X, the store holds a user X with access level operador
\* and supervisor reference S, and a row of monitoramento for X with
\* online = false and every timestamp null.
C19_CadastrarCriaLinhaVazia == [][C19_Passo]_vars

-----------------------------------------------------------------------------
(* Rejections and reads, checked under SpecGate *)

\* an authenticated /monitoramento/registrar whose tipo is none of the five
\* the switch knows ("" is a body without tipo)
TipoInvalido(q) ==
    /\ q.route = "registrar" /\ q.user # NoClaims
    /\ q.tipo \notin Tipos

C14_Estado ==
    \A r \in Slots :
        TipoInvalido(req[r]) =>
            /\ req[r].pc \in {"handler", "done"}
            /\ Respondido(r) => req[r].status = 400

C14_Passo ==
    \A r \in Slots :
        (TipoInvalido(req[r]) /\ req'[r] # req[r]) => monitoramento' = monitoramento

\* C14: POST /monitoramento/registrar with a tipo other than entrada,
\* saida, almoco_inicio, almoco_fim, ping, or with none, is answered 400
\* and none of its steps changes monitoramento: no row is written or
\* created for the caller.
C14_TipoInvalido == []C14_Estado /\ [][C14_Passo]_vars

\* Operator 3, who has no row, sent an unknown tipo: 400 and still no row.
C14_Witness ==
    \E r \in Slots :
        /\ TipoInvalido(req[r]) /\ req[r].tipo = "outro" /\ req[r].user.userId = 3
        /\ Respondido(r) /\ req[r].status = 400
        /\ Posicoes(monitoramento, 3) = {}

\* GET /monitoramento/:operadorId was answered 200
GetRespondeu(q) == q.route = "get" /\ q.pc = "done" /\ q.status = 200

Leituras == {"get", "status", "list"}

C17_Estado ==
    \A r \in Slots :
        (GetRespondeu(req[r]) /\ req[r].corpo.status = StatusPadrao)
        => Posicoes(monitoramento, req[r].operadorId) = {}

C17_Passo ==
    \A r \in Slots :
        (req'[r] # req[r] /\ req'[r].route \in Leituras) =>
            /\ usuarios' = usuarios
            /\ monitoramento' = monitoramento

\* C17: no step of GET /monitoramento/:operadorId, GET /monitoramento/status
\* or GET /operador/list changes usuarios or monitoramento, and after a GET
\* that returned the default the operator still has no row.
C17_LeiturasNaoEscrevem == []C17_Estado /\ [][C17_Passo]_vars

\* Supervisor 1 read operator 3, who has no row, got the default, and
\* operator 3 has no row.
C17_Witness ==
    \E r \in Slots :
        /\ GetRespondeu(req[r]) /\ req[r].operadorId = 3
        /\ req[r].corpo.status = StatusPadrao
        /\ Posicoes(monitoramento, 3) = {}

\* request r's /operador/cadastrar takes its first handler step, the e-mail
\* lookup, while a stored user has the e-mail of its body
CadastrarEmailExistente(r) ==
    /\ req[r].route = "cadastrar" /\ req[r].pc = "handler"
    /\ req'[r] # req[r]
    /\ \E u \in usuarios : u.email = req[r].email

C18_Passo ==
    \A r \in Slots :
        CadastrarEmailExistente(r) =>
            /\ req'[r].pc = "done" /\ req'[r].status = 400
            /\ usuarios' = usuarios
            /\ monitoramento' = monitoramento

C20_SoOsSeus ==
    \A r \in Slots :
        (req[r].route \in {"list", "status"} /\ Respondido(r) /\ req[r].status = 200)
        => {e.id : e \in req[r].corpo.lista}
            = {u.id : u \in {x \in usuarios : x.supervisor_id = req[r].user.userId}}

\* Supervisor 1 registered an operator and then listed: operator 3 and the
\* new one, not operator 4 of supervisor 2.
C20_Witness ==
    \E r \in Slots :
        /\ req[r].route = "list" /\ Respondido(r) /\ req[r].status = 200
        /\ req[r].user.userId = 1
        /\ Cadastrados # {}
        /\ {e.id : e \in req[r].corpo.lista} = {3} \cup {u.id : u \in Cadastrados}
        /\ \E u \in usuarios : u.id = 4 /\ u.supervisor_id = 2

-----------------------------------------------------------------------------
(* Ownership of the status rows, checked under SpecGate *)

\* C21: every row of monitoramento is keyed by the id of a user whose
\* access level is operador: /monitoramento/registrar serves only callers
\* with verified level operador, so a supervisor's token never creates or
\* changes a row keyed by the supervisor's own id.
C21_LinhasSoDeOperadores ==
    \A i \in DOMAIN monitoramento :
        \E u \in usuarios :
            u.id = monitoramento[i].operador_id /\ u.nivel_acesso = "operador"

-----------------------------------------------------------------------------
(* Sessions and token carriers: logins from any session, and protected      *)
(* requests whose session_token cookie is any token the client may hold,    *)
(* whatever the server-side session holds.  One request at a time.          *)

\* a protected request on session s with any cookie (the cookie jar is the
\* client's: it may hold the token of another login)
ChegaComCookie(r, rotas) ==
    \E s \in Sessions, c \in Cookies, route \in rotas :
        Chega(r, Pedido(route, s, c))

\* POST /monitoramento/registrar whose body names an operator besides tipo
ChegaRegistrarCorpo(r, sessoes, tipos, alvos) ==
    \E s \in sessoes, tipo \in tipos, id \in alvos :
        Chega(r, [Pedido("registrar", s, NoToken) EXCEPT !.tipo = tipo, !.operadorId = id])

ChegaSessao ==
    /\ nreq < MaxGate
    /\ \/ ChegaLogin(1, Sessions, {NoToken})
       \/ ChegaComCookie(1, {"list"})
       \/ ChegaRegistrarCorpo(1, {1, 2}, {"entrada", "saida"}, {3, 4})

NextSessao ==
    \/ ChegaSessao
    \/ verificarAutenticacao(1)
    \/ verificarSupervisor(1)
    \/ LoginOperador(1)
    \/ LoginSupervisor(1)
    \/ ListOperadores(1)
    \/ RegistrarInicio(1)
    \/ RegistrarUpsert(1)
    \/ Tick

SpecSessao == Init /\ [][NextSessao]_vars

\* jwt.verify accepts token t at time `now`
Valido(t, now) == JwtVerify(t, JWT_SECRET, now).ok

\* C22: a request to a protected route is authenticated whenever the
\* server-side session or the session_token cookie carries a valid,
\* unexpired token, whatever the other carrier holds.
C22_QualquerPortador ==
    \A r \in Slots :
        (/\ req[r].authAt # Null
         /\ \/ Valido(req[r].token, req[r].authAt)
            \/ Valido(req[r].cookie, req[r].authAt))
        => /\ req[r].user # NoClaims
           /\ ~(Respondido(r) /\ req[r].status = 401)

-----------------------------------------------------------------------------
(* Store failures: the store client resolves with { data: null, error }    *)
(* (a query error, or the store unreachable).  Each action below is the     *)
(* step of the corresponding handler when its store call fails.             *)

Falhou(q) == [q EXCEPT !.falha = TRUE]

\* the e-mail lookup fails: erroEmail is never read and usuarioExistente is
\* null, so the handler goes on to the insert
CadastrarSelectEmailFalha(r) ==
    /\ req[r].pc = "handler" /\ thread = 0 /\ req[r].route = "cadastrar"
    /\ req' = [req EXCEPT ![r] = [Falhou(Entra(req[r], "handler")) EXCEPT !.pc = "insertUsuario"]]
    /\ UNCHANGED <<usuarios, monitoramento, session, clock, nreq, thread, lastWrite, pingRun>>

\* the insert into usuarios fails: if (error) throw error, caught, 500
CadastrarInsertUsuarioFalha(r) ==
    /\ req[r].pc = "insertUsuario" /\ thread = 0
    /\ req' = [req EXCEPT ![r] = Responde(Falhou(req[r]), 500, NoCorpo)]
    /\ UNCHANGED <<usuarios, monitoramento, session, clock, nreq, thread, lastWrite, pingRun>>

\* the insert into monitoramento fails: its result is not looked at
CadastrarInsertMonitoramentoFalha(r) ==
    /\ req[r].pc = "insertMonitoramento" /\ thread = 0
    /\ req' = [req EXCEPT ![r] =
            Responde(Falhou(req[r]), 201, [NoCorpo EXCEPT !.operador_id = req[r].achado.id])]
    /\ UNCHANGED <<usuarios, monitoramento, session, clock, nreq, thread, lastWrite, pingRun>>

\* the select on usuarios fails: if (error) throw error, caught, 500
ListOperadoresFalha(r) ==
    /\ req[r].pc = "handler" /\ thread = 0 /\ req[r].route = "list"
    /\ req' = [req EXCEPT ![r] = Responde(Falhou(Entra(req[r], "handler")), 500, NoCorpo)]
    /\ UNCHANGED <<usuarios, monitoramento, session, clock, nreq, thread, lastWrite, pingRun>>

\* the operator lookup fails: if (!operador || operadorError) return 404
GetSelectOperadorFalha(r) ==
    /\ req[r].pc = "handler" /\ thread = 0 /\ req[r].route = "get"
    /\ req' = [req EXCEPT ![r] = Responde(Falhou(Entra(req[r], "handler")), 404, NoCorpo)]
    /\ UNCHANGED <<usuarios, monitoramento, session, clock, nreq, thread, lastWrite, pingRun>>

\* the status lookup fails: monitoramentoError is never read and
\* monitoramento is null, so the default is sent
GetSelectMonitoramentoFalha(r) ==
    /\ req[r].pc = "getMonitoramento" /\ thread = 0
    /\ req' = [req EXCEPT ![r] = Responde(Falhou(req[r]), 200,
            [NoCorpo EXCEPT !.operador = req[r].achado.id, !.status = StatusPadrao])]
    /\ UNCHANGED <<usuarios, monitoramento, session, clock, nreq, thread, lastWrite, pingRun>>

ChegaFalha ==
    /\ nreq < MaxGate
    /\ \/ ChegaCadastrar(1, {1}, {NoToken}, {"op3", "novo"})
       \/ ChegaGet(1, {1}, {NoToken}, {3, 4})
       \/ ChegaLeitura(1, {1}, {NoToken})

NextFalha ==
    \/ ChegaFalha
    \/ verificarAutenticacao(1)
    \/ verificarSupervisor(1)
    \/ CadastrarSelectEmail(1)
    \/ CadastrarSelectEmailFalha(1)
    \/ CadastrarInsertUsuario(1)
    \/ CadastrarInsertUsuarioFalha(1)
    \/ CadastrarInsertMonitoramento(1)
    \/ CadastrarInsertMonitoramentoFalha(1)
    \/ ListOperadores(1)
    \/ ListOperadoresFalha(1)
    \/ StatusOperadores(1)
    \/ Health(1)
    \/ GetSelectOperador(1)
    \/ GetSelectOperadorFalha(1)
    \/ GetSelectMonitoramento(1)
    \/ GetSelectMonitoramentoFalha(1)

SpecFalha == Init /\ [][NextFalha]_vars

\* C23: a request during which a store operation failed is answered 500,
\* never 200, 201, 400 or 404.
C23_FalhaDa500 ==
    \A r \in Slots :
        (Respondido(r) /\ req[r].falha) => req[r].status = 500

-----------------------------------------------------------------------------
(* The earlier revision of index.js (lines 1-579): every request first      *)
(* passes a store-connectivity middleware, tokens last one hour and are     *)
(* carried by the session only, and PUT /monitoramento/:operadorId/status   *)
(* reads the row and then updates or inserts it.                            *)

TokenTTLAntigo == 1  \* expiresIn: '1h'

ExpiresInAntigo == (TokenTTLAntigo + HoursPerTick - 1) \div HoursPerTick

\* jwt.sign({ userId, nivel_acesso }, secret, { expiresIn: '1h' }) at time now
JwtSignAntigo(userId, nivel_acesso, secret, now) ==
    [kind |-> "jwt", userId |-> userId, nivel_acesso |-> nivel_acesso,
     exp |-> now + ExpiresInAntigo, secret |-> secret]

\* .update(payload).eq('operador_id', id): every matching row, no error when
\* there is none
Update(t, operador_id, payload) ==
    [table |-> [i \in DOMAIN t |->
                    IF t[i].operador_id = operador_id THEN Merge(t[i], payload) ELSE t[i]],
     error |-> FALSE]

\* the tables of Init, the sessions logged in by this revision's handlers
InitR2 ==
    /\ usuarios = {Usuario(1, "sup1", "s1", "supervisor", Null),
                   Usuario(2, "sup2", "s2", "supervisor", Null),
                   Usuario(3, "op3", "s1", "operador", 1),
                   Usuario(4, "op4", "s2", "operador", 2)}
    /\ monitoramento = <<[LinhaVazia(4) EXCEPT !.status_online = "false"]>>
    /\ session = [s \in Sessions |->
                    IF s = 1 THEN JwtSignAntigo(1, "supervisor", JWT_SECRET, 0)
                    ELSE IF s = 2 THEN JwtSignAntigo(3, "operador", JWT_SECRET, 0)
                    ELSE NoToken]
    /\ clock = 0
    /\ req = [r \in Slots |-> ReqVazio]
    /\ nreq = 0
    /\ thread = 0
    /\ lastWrite = [id \in Ids |-> NuncaGravado]
    /\ pingRun = [id \in Ids |-> SemPings]

\* Request q arrives in slot r: express-session loads the session, then the
\* connectivity middleware starts its probe and awaits it
ChegaR2(r, q) ==
    /\ nreq < MaxRequests
    /\ thread = 0
    /\ ~EmVoo(r)
    /\ \A o \in Slots : o < r => EmVoo(o)
    /\ nreq' = nreq + 1
    /\ req' = [o \in Slots |->
                IF o = r
                THEN [q EXCEPT !.token = session[q.sess],
                               !.pc = "gate",
                               !.conc = \E x \in Slots \ {r} : EmVoo(x)]
                ELSE IF EmVoo(o) THEN [req[o] EXCEPT !.conc = TRUE]
                ELSE req[o]]
    /\ clock' \in clock..MaxClock
    /\ UNCHANGED <<usuarios, monitoramento, session, thread, lastWrite, pingRun>>

\* Mutant of GateR2: next() is called whatever the probe returned
GateR2SempreSegue(r) ==
    /\ req[r].pc = "gate" /\ thread = 0
    /\ \E error \in BOOLEAN :
        LET q == Entra(req[r], "gate")
            q2 == [(IF error THEN Falhou(q) ELSE q) EXCEPT !.pc = Cadeia(q.route)[1]]
        IN  /\ req' = [req EXCEPT ![r] = q2]
            /\ thread' = Segue(r, q2)
    /\ UNCHANGED <<usuarios, monitoramento, session, clock, nreq, lastWrite, pingRun>>

\* app.use(async (req, res, next) => ...): the probe of usuarios resolves
\* with or without an error; next() enters the route's chain
GateR2(r) ==
    /\ req[r].pc = "gate" /\ thread = 0
    /\ \E error \in BOOLEAN :
        LET q == Entra(req[r], "gate")
            q2 == IF error THEN Responde(Falhou(q), 500, NoCorpo)
                  ELSE [q EXCEPT !.pc = Cadeia(q.route)[1]]
        IN  /\ req' = [req EXCEPT ![r] = q2]
            /\ thread' = Segue(r, q2)
    /\ UNCHANGED <<usuarios, monitoramento, session, clock, nreq, lastWrite, pingRun>>

\* verificarAutenticacao of this revision: the session's token only
verificarAutenticacaoR2(r) ==
    /\ req[r].pc = "verificarAutenticacao" /\ thread = r
    /\ LET q == [Entra(req[r], "verificarAutenticacao") EXCEPT !.authAt = clock]
           v == JwtVerify(q.token, JWT_SECRET, clock)
           q2 == IF q.token.kind = "none" THEN Responde(q, 401, NoCorpo)
                 ELSE IF v.ok
                     THEN [q EXCEPT !.user = v.claims,
                                    !.pc = Proximo(q.route, "verificarAutenticacao")]
                 ELSE Responde(q, 401, NoCorpo)
       IN  /\ req' = [req EXCEPT ![r] = q2]
           /\ thread' = Segue(r, q2)
    /\ UNCHANGED <<usuarios, monitoramento, session, clock, nreq, lastWrite, pingRun>>

\* POST /auth/login-supervisor of this revision
LoginSupervisorR2(r) ==
    /\ req[r].pc = "handler" /\ thread = 0 /\ req[r].route = "login-supervisor"
    /\ LET q == Entra(req[r], "handler")
           res == Single({u \in usuarios : u.email = q.email})
           user == res.data
           token == JwtSignAntigo(user.id, user.nivel_acesso, JWT_SECRET, clock)
       IN  IF res.error
           THEN /\ req' = [req EXCEPT ![r] = Responde(q, 400, NoCorpo)]
                /\ UNCHANGED session
           ELSE IF user.nivel_acesso # "supervisor"
           THEN /\ req' = [req EXCEPT ![r] = Responde(q, 403, NoCorpo)]
                /\ UNCHANGED session
           ELSE IF ~BcryptCompare(q.senha, user.senha)
           THEN /\ req' = [req EXCEPT ![r] = Responde(q, 400, NoCorpo)]
                /\ UNCHANGED session
           ELSE /\ session' = [session EXCEPT ![q.sess] = token]
                /\ req' = [req EXCEPT ![r] = Responde(q, 200,
                       [NoCorpo EXCEPT !.userId = user.id,
                                       !.nivel_acesso = user.nivel_acesso])]
    /\ UNCHANGED <<usuarios, monitoramento, clock, nreq, thread, lastWrite, pingRun>>

\* PUT /monitoramento/:operadorId/status of this revision: the operator
\* lookup
PutSelectOperadorR2(r) ==
    /\ req[r].pc = "handler" /\ thread = 0 /\ req[r].route = "put"
    /\ LET q == Entra(req[r], "handler")
           operador == SelectOperador(q.operadorId, q.user.userId)
       IN  req' = [req EXCEPT ![r] =
                IF operador.error THEN Responde(q, 404, NoCorpo)
                ELSE [q EXCEPT !.achado = operador.data, !.pc = "putSelectExisting"]]
    /\ UNCHANGED <<usuarios, monitoramento, session, clock, nreq, thread, lastWrite, pingRun>>

\* the read of existingRecord; the branch it selects is taken at the next
\* store call
PutSelectExistingR2(r) ==
    /\ req[r].pc = "putSelectExisting" /\ thread = 0
    /\ LET q == Entra(req[r], "putSelectExisting")
           existingRecord == SingleMonitoramento(monitoramento, q.operadorId)
       IN  req' = [req EXCEPT ![r] =
                [q EXCEPT !.pc = IF existingRecord.error THEN "putInsert" ELSE "putUpdate"]]
    /\ UNCHANGED <<usuarios, monitoramento, session, clock, nreq, thread, lastWrite, pingRun>>

\* the write the branch chose, then if (error) throw error and the answer
PutWriteR2(r) ==
    /\ req[r].pc \in {"putInsert", "putUpdate"} /\ thread = 0
    /\ LET q == Entra(req[r], req[r].pc)
           id == q.operadorId
           payload == IF q.pc = "putUpdate" THEN [status_online |-> q.status_online]
                      ELSE [operador_id |-> id, status_online |-> q.status_online,
                            horario_entrada |-> Null, horario_saida |-> Null]
           res == IF q.pc = "putUpdate" THEN Update(monitoramento, id, payload)
                  ELSE Insert(monitoramento, id, payload)
       IN  /\ monitoramento' = res.table
           /\ lastWrite' = IF res.error \/ Posicoes(res.table, id) = {} THEN lastWrite
                           ELSE Gravado(lastWrite, id, payload)
           /\ pingRun' = IF res.error \/ Posicoes(res.table, id) = {} THEN pingRun
                         ELSE Contado(pingRun, id, FALSE, NoLinha)
           /\ req' = [req EXCEPT ![r] =
                    IF res.error THEN Responde(q, 500, NoCorpo)
                    ELSE Responde(q, 200, [NoCorpo EXCEPT !.operador_id = id,
                                                          !.online = q.status_online])]
    /\ UNCHANGED <<usuarios, session, clock, nreq, thread>>

ChegaPutR2(r) ==
    \E so \in {"true", "false"} :
        ChegaR2(r, [Pedido("put", 1, NoToken) EXCEPT !.operadorId = 3, !.status_online = so])

ChegaLoginR2(r) ==
    \E email \in {"sup1", "op3"}, senha \in Senhas :
        ChegaR2(r, [Pedido("login-supervisor", 3, NoToken) EXCEPT !.email = email, !.senha = senha])

ChegaHealthR2(r) == ChegaR2(r, Pedido("health", 3, NoToken))

NextR2 ==
    \/ \E r \in Slots : ChegaPutR2(r)
    \/ \E r \in Slots : ChegaLoginR2(r)
    \/ \E r \in Slots : ChegaHealthR2(r)
    \/ \E r \in Slots : GateR2(r)
    \/ \E r \in Slots : verificarAutenticacaoR2(r)
    \/ \E r \in Slots : verificarSupervisor(r)
    \/ \E r \in Slots : LoginSupervisorR2(r)
    \/ \E r \in Slots : Health(r)
    \/ \E r \in Slots : PutSelectOperadorR2(r)
    \/ \E r \in Slots : PutSelectExistingR2(r)
    \/ \E r \in Slots : PutWriteR2(r)

SpecR2 == InitR2 /\ [][NextR2]_vars

\* two PUTs for operator `id`, neither hit by a store failure, that both
\* read the operator's row as absent before either wrote
AmbosLeramAusente(id) ==
    \A r \in Slots :
        /\ Respondido(r) /\ req[r].route = "put" /\ req[r].operadorId = id
        /\ ~req[r].falha /\ req[r].conc
        /\ \E i \in DOMAIN req[r].trace : req[r].trace[i] = "putInsert"

\* C24: two concurrent PUTs for a supervised operator without a status row
\* both end with 200 and leave exactly one row for the operator.
C24_DoisPutsUmaLinha ==
    \A id \in Ids :
        AmbosLeramAusente(id)
        => /\ \A r \in Slots : req[r].status = 200
           /\ Cardinality(Posicoes(monitoramento, id)) = 1

\* C28: when the connectivity probe fails the request is answered 500 and no
\* later middleware or handler runs for it, whatever the route; when the
\* probe succeeds the request enters its route's chain as it arrived, and
\* the probe changes neither the store nor the sessions.  No middleware or
\* handler runs before the probe.
C28_Estado ==
    \A r \in Slots :
        /\ req[r].falha =>
                Respondido(r) /\ req[r].status = 500 /\ req[r].trace = <<"gate">>
        /\ req[r].trace # <<>> => req[r].trace[1] = "gate"

C28_Passo ==
    \A r \in Slots :
        (req[r].pc = "gate" /\ req'[r].pc # "gate")
        => /\ UNCHANGED <<usuarios, monitoramento, session>>
           /\ ~req'[r].falha =>
                req'[r] = [req[r] EXCEPT !.pc = Cadeia(req[r].route)[1],
                                         !.trace = Append(@, "gate")]

C28_GateDeConexao == []C28_Estado /\ [][C28_Passo]_vars

\* a protected request stopped at the probe beside a health check that
\* passed it
C28_Witness ==
    \E r, o \in Slots :
        /\ req[r].route = "put" /\ req[r].falha /\ req[r].status = 500
        /\ req[o].route = "health" /\ Respondido(o) /\ req[o].status = 200

-----------------------------------------------------------------------------
(* Concurrent registrations: supervisor 1 registers operators while the     *)
(* directory holds the two supervisors and operator 3.                      *)

InitCadastro ==
    /\ usuarios = {Usuario(1, "sup1", "s1", "supervisor", Null),
                   Usuario(2, "sup2", "s2", "supervisor", Null),
                   Usuario(3, "op3", "s1", "operador", 1)}
    /\ monitoramento = <<>>
    /\ session = [s \in Sessions |->
                    IF s = 1 THEN JwtSign(1, "supervisor", JWT_SECRET, 0)
                    ELSE IF s = 2 THEN JwtSign(3, "operador", JWT_SECRET, 0)
                    ELSE NoToken]
    /\ clock = 0
    /\ req = [r \in Slots |-> ReqVazio]
    /\ nreq = 0
    /\ thread = 0
    /\ lastWrite = [id \in Ids |-> NuncaGravado]
    /\ pingRun = [id \in Ids |-> SemPings]

NextCadastro ==
    \/ \E r \in Slots : ChegaCadastrar(r, {1}, {NoToken}, {"op3", "novo", "outro"})
    \/ \E r \in Slots : verificarAutenticacao(r)
    \/ \E r \in Slots : verificarSupervisor(r)
    \/ \E r \in Slots : CadastrarSelectEmail(r)
    \/ \E r \in Slots : CadastrarInsertUsuario(r)
    \/ \E r \in Slots : CadastrarInsertMonitoramento(r)

SpecCadastro == InitCadastro /\ [][NextCadastro]_vars

\* the two slots hold answered, overlapping registrations of the same e-mail
MesmoEmailConcorrentes ==
    \A r \in Slots :
        /\ Respondido(r) /\ req[r].route = "cadastrar" /\ req[r].conc
        /\ req[r].email = req[1].email
        /\ req[r].status \notin {401, 403}

\* C25: no two rows of usuarios share an e-mail, and of two concurrent
\* registrations of the same new e-mail one is answered 201 and the other
\* 400.
C25_EmailUnicoSobConcorrencia ==
    /\ \A u, v \in usuarios : u.email = v.email => u = v
    /\ (MesmoEmailConcorrentes /\ \E r \in Slots : req[r].status = 201)
        => {req[r].status : r \in Slots} = {201, 400}

-----------------------------------------------------------------------------
(* The first revision (part_000): the two login handlers, which are the     *)
(* same code under two paths and have no try/catch.                         *)

SEGREDO_R1 == "seu-segredo-jwt"

\* req.body.senha when the body has no senha: undefined
SemSenha == "undefined"

\* the tables of Init, the sessions logged in by this revision's handlers
InitR1 ==
    /\ usuarios = {Usuario(1, "sup1", "s1", "supervisor", Null),
                   Usuario(2, "sup2", "s2", "supervisor", Null),
                   Usuario(3, "op3", "s1", "operador", 1),
                   Usuario(4, "op4", "s2", "operador", 2)}
    /\ monitoramento = <<[LinhaVazia(4) EXCEPT !.status_online = "false"]>>
    /\ session = [s \in Sessions |->
                    IF s = 1 THEN JwtSignAntigo(1, "supervisor", SEGREDO_R1, 0)
                    ELSE IF s = 2 THEN JwtSignAntigo(3, "operador", SEGREDO_R1, 0)
                    ELSE NoToken]
    /\ clock = 0
    /\ req = [r \in Slots |-> ReqVazio]
    /\ nreq = 0
    /\ thread = 0
    /\ lastWrite = [id \in Ids |-> NuncaGravado]
    /\ pingRun = [id \in Ids |-> SemPings]

\* The body of both login handlers.  bcrypt.compare(undefined, digest)
\* rejects; the handler has no try/catch, so the async function's promise
\* rejects.  What the router does with that promise depends on the major
\* version of express, which the repository does not pin: it is either
\* dropped (nothing is ever sent) or passed to the default error handler
\* (500).
LoginR1(r) ==
    LET q == Entra(req[r], "handler")
        res == Single({u \in usuarios : u.email = q.email})
        user == res.data
        token == JwtSignAntigo(user.id, user.nivel_acesso, SEGREDO_R1, clock)
    IN  IF res.error
        THEN /\ req' = [req EXCEPT ![r] = Responde(q, 400, NoCorpo)]
             /\ UNCHANGED session
        ELSE IF q.senha = SemSenha
        THEN /\ \E encaminha \in BOOLEAN :
                    req' = [req EXCEPT ![r] =
                        IF encaminha THEN Responde(q, 500, NoCorpo)
                        ELSE [q EXCEPT !.pc = "rejeitado"]]
             /\ UNCHANGED session
        ELSE IF ~BcryptCompare(q.senha, user.senha)
        THEN /\ req' = [req EXCEPT ![r] = Responde(q, 400, NoCorpo)]
             /\ UNCHANGED session
        ELSE /\ session' = [session EXCEPT ![q.sess] = token]
             /\ req' = [req EXCEPT ![r] = Responde(q, 200,
                    [NoCorpo EXCEPT !.nivel_acesso = user.nivel_acesso])]

LoginOperadorR1(r) ==
    /\ req[r].pc = "handler" /\ thread = 0 /\ req[r].route = "login-operador"
    /\ LoginR1(r)
    /\ UNCHANGED <<usuarios, monitoramento, clock, nreq, thread, lastWrite, pingRun>>

LoginSupervisorR1(r) ==
    /\ req[r].pc = "handler" /\ thread = 0 /\ req[r].route = "login-supervisor"
    /\ LoginR1(r)
    /\ UNCHANGED <<usuarios, monitoramento, clock, nreq, thread, lastWrite, pingRun>>

ChegaLoginR1(r) ==
    /\ nreq < MaxGate
    /\ \E route \in {"login-operador", "login-supervisor"},
          email \in {"sup1", "op3", "novo"}, senha \in Senhas \cup {SemSenha} :
        Chega(r, [Pedido(route, 3, NoToken) EXCEPT !.email = email, !.senha = senha])

NextR1 ==
    \/ \E r \in Slots : ChegaLoginR1(r)
    \/ \E r \in Slots : LoginOperadorR1(r)
    \/ \E r \in Slots : LoginSupervisorR1(r)
    \/ Tick

SpecR1 == InitR1 /\ [][NextR1]_vars

\* Node runs every continuation that is ready: a handler whose store call or
\* hash comparison has settled is resumed
SpecR1Justo == SpecR1 /\ WF_vars(NextR1)

\* the stored user that a login request names
UsuarioDe(q) == Single({u \in usuarios : u.email = q.email})

\* C26: /auth/login-supervisor logs in only users whose stored access level
\* is supervisor: a request naming an operator is answered with a failure
\* status and stores no token in the session.
C26_SoSupervisorEntra ==
    \A r \in Slots :
        (/\ Respondido(r) /\ req[r].route = "login-supervisor"
         /\ ~UsuarioDe(req[r]).error
         /\ UsuarioDe(req[r]).data.nivel_acesso = "operador")
        => /\ req[r].status >= 400
           /\ session[req[r].sess] = req[r].token

\* C29: every request that was received is eventually answered.
C29_TodoPedidoRespondido ==
    \A r \in Slots : EmVoo(r) ~> Respondido(r)

-----------------------------------------------------------------------------
(* Failed logins and the key of registrar's write, checked under SpecSessao *)

\* the login request names no stored user, or its password does not match
\* the stored digest
CredenciaisErradas(q) ==
    \/ UsuarioDe(q).error
    \/ ~BcryptCompare(q.senha, UsuarioDe(q).data.senha)

C27_Passo ==
    \A r \in Slots :
        (/\ req[r].pc = "handler" /\ req'[r].pc = "done"
         /\ req[r].route \in {"login-operador", "login-supervisor"}
         /\ CredenciaisErradas(req[r]))
        => /\ req'[r].status = 400
           /\ req'[r].corpo.cookie = NoToken
           /\ session' = session

LinhasDe(t, id) == {t[i] : i \in Posicoes(t, id)}

C30_Passo ==
    \A r \in Slots :
        (req[r].route = "registrar" /\ EmVoo(r) /\ req'[r] # req[r])
        => \A id \in Ids \ {req[r].user.userId} :
                LinhasDe(monitoramento', id) = LinhasDe(monitoramento, id)

\* C30: no step of a /monitoramento/registrar request creates or changes a
\* row of monitoramento keyed by anyone but the user of the caller's
\* verified token, whatever the request body names.
C30_SoALinhaDoChamador == [][C30_Passo]_vars

\* operator 3 registered an event with a body naming operator 4: the row of
\* 3 was written and the row of 4 is as it was stored
C30_Witness ==
    \E r \in Slots :
        /\ Respondido(r) /\ req[r].route = "registrar" /\ req[r].status = 200
        /\ req[r].user.userId = 3 /\ req[r].operadorId = 4
        /\ Posicoes(monitoramento, 3) # {}
        /\ LinhaDe(monitoramento, 4) = [LinhaVazia(4) EXCEPT !.status_online = "false"]

====
